---- MODULE Spec2Model ----
(***************************************************************************)
(* A model of bonds.py (rusbonds scraper).                                  *)
(*                                                                          *)
(*   Spec        main(), lines 300-328: the two browser sessions, each      *)
(*               running scrape_data's collection loop (lines 251-298).     *)
(*   SpecEnrich  main(), lines 330-360: improve_dataframe,                  *)
(*               process_yuan_bond (with fetch_moex_data and                *)
(*               get_exchange_rate), the concatenation and the final        *)
(*               assembly.                                                  *)
(*   SpecConv    convert_numeric_value and its use by improve_dataframe.    *)
(***************************************************************************)
EXTENDS Integers, Sequences, FiniteSets

\* ------------------------------------------------------------------ bounds
\* Pages one collection loop may visit.
MaxPages == 2
\* Table rows one rendered page may hold.
MaxRows == 2

\* ------------------------------------------------------------ acquisition
VARIABLES
    pc,         \* main's / scrape_data's position
    cat,        \* 1: the MFO session (lines 303-314), 2: collectors (317-328)
    driver,     \* driver[k]: "none" | "open" | "quit"
    exc,        \* the exception in flight ("none" when there is none)
    all_data,   \* scrape_data's all_data list
    parsed,     \* parse_table calls of the running scrape_data
    advances,   \* next-page clicks of the running scrape_data that succeeded
    attempts,   \* passes through the try block of lines 283-290
    frames      \* frames[k]: what scrape_data returned in session k

acqVars == <<pc, cat, driver, exc, all_data, parsed, advances, attempts, frames>>

\* ------------------------------------------------------------- enrichment
VARIABLES
    epc,            \* main's position in lines 330-360
    today,          \* date.today(), a day number; day 0 is a Monday
    mfo_data,       \* the frame scrape_data returned for the MFO category
    collector_data, \* the frame scrape_data returned for the collectors
    mfo_proc,       \* main's mfo_proc
    collector_proc, \* main's collector_proc
    fetch_args,     \* the (date_from, date_to) of each fetch_moex_data call
    moex_data,      \* what fetch_moex_data returned
    rate_args,      \* the date of each get_exchange_rate call
    exchange_rate,  \* what get_exchange_rate returned
    main_all_data,  \* main's all_data (line 348)
    err,            \* the exception that left main ("none" when none did)
    final_data,     \* the module-level name final_data: {} while unbound
    returned        \* what main returned: {} while it has not

enrVars == <<epc, today, mfo_data, collector_data, mfo_proc, collector_proc,
             fetch_args, moex_data, rate_args, exchange_rate, main_all_data,
             err, final_data, returned>>

\* ------------------------------------------------------ numeric conversion
VARIABLES
    value,          \* the cell handed to convert_numeric_value
    conv_pc,        \* "call" | "returned" | "raised"
    conv_result,    \* the float it returned
    improve_pc      \* improve_dataframe around the call (line 69):
                    \* "running" | "column_set" | "raised"

convVars == <<value, conv_pc, conv_result, improve_pc>>

\* The distinct rows a page may show (RawRecords compared by value).
Rows == {"A", "B", "C"}
\* frames[k] before scrape_data has returned in session k (no frame of Rows).
NoFrame == <<"NoFrame">>

Range(s) == {s[i] : i \in DOMAIN s}

\* What parse_table may return for one page: any rows, in any order.
Pages == UNION {[1..n -> Rows] : n \in 0..MaxRows}

RECURSIVE DropDup(_, _)
DropDup(s, seen) ==
    IF s = <<>> THEN <<>>
    ELSE IF Head(s) \in seen THEN DropDup(Tail(s), seen)
    ELSE <<Head(s)>> \o DropDup(Tail(s), seen \cup {Head(s)})

Reverse(s) == [i \in 1..Len(s) |-> s[Len(s) + 1 - i]]

\* A deduplication that keeps the last occurrence instead of the first.
DropDuplicatesKeepLast(s) == Reverse(DropDup(Reverse(s), {}))

\* df.drop_duplicates(keep='first')
DropDuplicates(s) == DropDup(s, {})

\* An except clause that swallows the failure and goes round the loop again.
OnAdvanceExceptionRetry == "parse"

\* except Exception: break (lines 291-292): the loop is left for line 295.
OnAdvanceException == "dedup"

\* A try without its finally: the exception leaves main at once.
OnSessionExceptionNoFinally == "raised"

\* An exception in a try body of main runs the finally block first.
OnSessionException == "quit"

AcqInit ==
    /\ pc = "setup"
    /\ cat = 1
    /\ driver = [k \in 1..2 |-> "none"]
    /\ exc = "none"
    /\ all_data = <<>>
    /\ parsed = 0
    /\ advances = 0
    /\ attempts = 0
    /\ frames = [k \in 1..2 |-> NoFrame]

\* main at line 330: both sessions are over and scrape_data's locals gone.
AcqDone ==
    /\ pc = "acquired"
    /\ cat = 2
    /\ driver = [k \in 1..2 |-> "quit"]
    /\ exc = "none"
    /\ all_data = <<>>
    /\ parsed = 0
    /\ advances = 0
    /\ attempts = 0
    /\ frames = [k \in 1..2 |-> NoFrame]

\* An exception raised inside the try body of session cat.
Fail(name) ==
    /\ exc' = name
    /\ pc' = OnSessionException

\* driver = setup_browser(): outside the try; a failure leaves main directly.
Setup ==
    /\ pc = "setup"
    /\ \E ok \in BOOLEAN :
        IF ok
        THEN /\ driver' = [driver EXCEPT ![cat] = "open"]
             /\ pc' = "login"
             /\ exc' = exc
        ELSE /\ exc' = "WebDriverException"
             /\ pc' = "raised"
             /\ driver' = driver
    /\ UNCHANGED <<cat, all_data, parsed, advances, attempts, frames>>
    /\ UNCHANGED <<enrVars, convVars>>

\* login_to_rusbonds(driver)
Login ==
    /\ pc = "login"
    /\ \E ok \in BOOLEAN :
        IF ok THEN pc' = "navigate" /\ exc' = exc
        ELSE Fail("NoSuchElementException")
    /\ UNCHANGED <<cat, driver, all_data, parsed, advances, attempts, frames>>
    /\ UNCHANGED <<enrVars, convVars>>

\* scrape_data up to the loop: the menu path, the watchlist,
\* configure_table_fields, then all_data = [].
Navigate ==
    /\ pc = "navigate"
    /\ \E ok \in BOOLEAN :
        IF ok
        THEN /\ pc' = "parse"
             /\ exc' = exc
        ELSE Fail("NoSuchElementException")
    /\ all_data' = <<>>
    /\ parsed' = 0
    /\ advances' = 0
    /\ attempts' = 0
    /\ UNCHANGED <<cat, driver, frames>>
    /\ UNCHANGED <<enrVars, convVars>>

\* html = driver.page_source; all_data.extend(parse_table(html)).
\* Reading the page source is outside the loop's try: its failure propagates.
ParsePage ==
    /\ pc = "parse"
    /\ \/ \E page \in Pages :
            /\ all_data' = all_data \o page
            /\ parsed' = parsed + 1
            /\ pc' = "advance"
            /\ exc' = exc
       \/ /\ Fail("WebDriverException")
          /\ UNCHANGED <<all_data, parsed>>
    /\ UNCHANGED <<cat, driver, advances, attempts, frames>>
    /\ UNCHANGED <<enrVars, convVars>>

\* The try block: wait for the button, hover, click; all three succeed.
AdvanceOk ==
    /\ pc = "advance"
    /\ parsed < MaxPages
    /\ attempts' = attempts + 1
    /\ advances' = advances + 1
    /\ pc' = "parse"
    /\ UNCHANGED <<cat, driver, exc, all_data, parsed, frames>>
    /\ UNCHANGED <<enrVars, convVars>>

\* The try block raises at the wait, the hover or the click.
AdvanceFails ==
    /\ pc = "advance"
    /\ \E stage \in {"wait", "hover", "click"} :
        /\ attempts' = attempts + 1
        /\ pc' = OnAdvanceException
    /\ UNCHANGED <<cat, driver, exc, all_data, parsed, advances, frames>>
    /\ UNCHANGED <<enrVars, convVars>>

\* df = pd.DataFrame(all_data); df.drop_duplicates(...); return df
Dedup ==
    /\ pc = "dedup"
    /\ frames' = [frames EXCEPT ![cat] = DropDuplicates(all_data)]
    /\ pc' = "quit"
    /\ UNCHANGED <<cat, driver, exc, all_data, parsed, advances, attempts>>
    /\ UNCHANGED <<enrVars, convVars>>

\* finally: driver.quit(); a pending exception then leaves main.
Quit ==
    /\ pc = "quit"
    /\ driver' = [driver EXCEPT ![cat] = "quit"]
    /\ IF exc # "none"
       THEN pc' = "raised" /\ cat' = cat
       ELSE IF cat = 1
            THEN pc' = "setup" /\ cat' = 2
            ELSE pc' = "acquired" /\ cat' = cat
    /\ UNCHANGED <<exc, all_data, parsed, advances, attempts, frames>>
    /\ UNCHANGED <<enrVars, convVars>>

AcqNext ==
    \/ Setup
    \/ Login
    \/ Navigate
    \/ ParsePage
    \/ AdvanceOk
    \/ AdvanceFails
    \/ Dedup
    \/ Quit

\* --------------------------------------------------- claims on acquisition
FirstIndex(s, x) == CHOOSE i \in DOMAIN s : s[i] = x /\ \A j \in 1..(i - 1) : s[j] # x

\* C1: in the collection loop a page is parsed before every attempt to
\* advance, the loop is left only by the first failing attempt, whose
\* exception is absorbed, so that scrape_data returns with
\* pages parsed = successful advances + 1 (one page when the control is
\* never found).
C1_LoopExit ==
    /\ pc = "parse" => (parsed = advances /\ attempts = advances)
    /\ pc = "advance" => (parsed = advances + 1 /\ attempts = advances)
    /\ pc = "dedup" =>
        (parsed = advances + 1 /\ attempts = advances + 1 /\ exc = "none")
    /\ frames[cat] # NoFrame =>
        (parsed = advances + 1 /\ attempts = advances + 1 /\ exc = "none")
    /\ (frames[cat] # NoFrame /\ advances = 0) => parsed = 1

C1_Witness ==
    /\ pc = "quit"
    /\ frames[cat] # NoFrame
    /\ advances = 1
    /\ parsed = 2
    /\ attempts = 2

\* C2: the frame scrape_data returns holds every distinct row of the visited
\* pages exactly once, in the order of first occurrence.
C2_DedupKeepsFirst ==
    frames[cat] # NoFrame =>
        LET r == frames[cat] IN
        /\ Range(r) = Range(all_data)
        /\ \A i, j \in DOMAIN r :
            i < j => /\ r[i] # r[j]
                     /\ FirstIndex(all_data, r[i]) < FirstIndex(all_data, r[j])

C2_Witness ==
    /\ all_data = <<"A", "B", "B", "C">>
    /\ parsed = 2
    /\ frames[cat] = <<"A", "B", "C">>

\* C3: a session that was acquired is quit on every exit path of main, and
\* the first session is quit before the second is acquired.
C3_SessionsReleased ==
    /\ driver[1] = "open" => driver[2] = "none"
    /\ driver[2] # "none" => driver[1] = "quit"
    /\ pc \in {"raised", "acquired"} => \A k \in 1..2 : driver[k] # "open"

C3_Witness ==
    /\ pc = "raised"
    /\ exc = "WebDriverException"
    /\ cat = 2
    /\ parsed = 1
    /\ driver = [k \in 1..2 |-> "quit"]

\* C4: an exception in the first category's login, navigation or collection
\* does not prevent the second category's run: once main has dealt with it,
\* the second session has been acquired.
C4_SecondCategoryStillRuns ==
    (pc = "raised" /\ cat = 1 /\ driver[1] = "quit") => driver[2] # "none"

\* ------------------------------------------------------------ text, floats
\* A text is a sequence of characters. None is Python's None (also what a
\* missing cell becomes): no text, and not the empty text.
None == <<"None">>

\* Longest cell text convert_numeric_value is tried on.
MaxLen == 3

Digits == {"0", "1", "2", "3", "4", "5", "6", "7", "8", "9"}

DigitVal(c) ==
    CASE c = "0" -> 0 [] c = "1" -> 1 [] c = "2" -> 2 [] c = "3" -> 3
      [] c = "4" -> 4 [] c = "5" -> 5 [] c = "6" -> 6 [] c = "7" -> 7
      [] c = "8" -> 8 [] c = "9" -> 9

\* A float is a fraction n/d; d = 0 marks the two non-finite values.
NaN == [n |-> 0, d |-> 0]
Inf == [n |-> 1, d |-> 0]
Zero == [n |-> 0, d |-> 1]
One == [n |-> 1, d |-> 1]
IsNaN(a) == a = NaN
IsInf(a) == a = Inf
Int2Num(k) == [n |-> k, d |-> 1]

\* a == b on floats (NaN equals nothing).
NumEq(a, b) ==
    IF IsNaN(a) \/ IsNaN(b) THEN FALSE
    ELSE IF a.d = 0 \/ b.d = 0 THEN a = b
    ELSE a.n * b.d = b.n * a.d

\* a / b as numpy divides floats: division by zero gives inf or nan.
Div(a, b) ==
    IF IsNaN(a) \/ IsNaN(b) THEN NaN
    ELSE IF IsInf(a) THEN (IF IsInf(b) THEN NaN ELSE Inf)
    ELSE IF IsInf(b) THEN Zero
    ELSE IF b.n = 0 THEN (IF a.n = 0 THEN NaN ELSE Inf)
    ELSE [n |-> a.n * b.d, d |-> a.d * b.n]

\* value.replace(' ', '')
ReplaceSpace(t) == SelectSeq(t, LAMBDA c : c # " ")

\* value.replace(',', '.')
ReplaceComma(t) == [i \in DOMAIN t |-> IF t[i] = "," THEN "." ELSE t[i]]

\* What float() accepts among texts of digits, dots and other characters:
\* digits with at most one dot and at least one digit.
IsFloatLiteral(t) ==
    /\ \A i \in DOMAIN t : t[i] \in Digits \cup {"."}
    /\ Cardinality({i \in DOMAIN t : t[i] = "."}) <= 1
    /\ \E i \in DOMAIN t : t[i] \in Digits

RECURSIVE DigitsValue(_)
DigitsValue(t) ==
    IF t = <<>> THEN 0
    ELSE 10 * DigitsValue(SubSeq(t, 1, Len(t) - 1)) + DigitVal(t[Len(t)])

RECURSIVE Pow10(_)
Pow10(k) == IF k = 0 THEN 1 ELSE 10 * Pow10(k - 1)

\* float(t) for a text float() accepts.
FloatValue(t) ==
    LET dots == {i \in DOMAIN t : t[i] = "."}
        frac == IF dots = {} THEN 0 ELSE Len(t) - (CHOOSE i \in dots : TRUE)
    IN [n |-> DigitsValue(SelectSeq(t, LAMBDA c : c # ".")), d |-> Pow10(frac)]

\* float(t): the value, or ValueError.
Float(t) ==
    IF IsFloatLiteral(t)
    THEN [raised |-> FALSE, val |-> FloatValue(t)]
    ELSE [raised |-> TRUE, val |-> NaN]

\* convert_numeric_value(value)
ConvertNumericValue(v) ==
    IF v = <<>> \/ v = None
    THEN [raised |-> FALSE, val |-> Zero]
    ELSE Float(ReplaceComma(ReplaceSpace(v)))

\* ------------------------------------------------ convert_numeric_value run
Alphabet == {"1", "2", " ", ",", "x"}

CellValues == {None} \cup UNION {[1..k -> Alphabet] : k \in 0..MaxLen}

ConvInit ==
    /\ value \in CellValues
    /\ conv_pc = "call"
    /\ conv_result = Zero
    /\ improve_pc = "running"

ConvIdle ==
    /\ value = None
    /\ conv_pc = "idle"
    /\ conv_result = Zero
    /\ improve_pc = "idle"

\* One call of convert_numeric_value made by Series.apply (line 69).
ConvCall ==
    /\ conv_pc = "call"
    /\ LET r == ConvertNumericValue(value) IN
        /\ conv_pc' = IF r.raised THEN "raised" ELSE "returned"
        /\ conv_result' = r.val
    /\ UNCHANGED <<value, improve_pc>>
    /\ UNCHANGED <<acqVars, enrVars>>

\* improve_dataframe has no handler around the apply: the column is set when
\* the call returned, the exception leaves improve_dataframe when it raised.
ConvApply ==
    /\ conv_pc \in {"returned", "raised"}
    /\ improve_pc = "running"
    /\ improve_pc' = IF conv_pc = "raised" THEN "raised" ELSE "column_set"
    /\ UNCHANGED <<value, conv_pc, conv_result>>
    /\ UNCHANGED <<acqVars, enrVars>>

ConvNext ==
    \/ ConvCall
    \/ ConvApply

\* C10: convert_numeric_value never raises: absent or empty input gives 0.0,
\* a locale-formatted number its value, any other text a not-a-number
\* sentinel, so that no cell can abort improve_dataframe.
C10_NeverRaises ==
    /\ conv_pc # "raised"
    /\ improve_pc # "raised"
    /\ conv_pc = "returned" =>
        \/ value \in {None, <<>>} /\ conv_result = Zero
        \/ IsFloatLiteral(ReplaceComma(ReplaceSpace(value)))
        \/ IsNaN(conv_result)

\* ------------------------------------------------ enrichment (lines 330-360)
\* Rows of one scraped frame.
MaxRecs == 2
\* Data rows of the MOEX history table.
MaxMoexRows == 2

\* The ISIN main hands to process_yuan_bond (line 332), and another one.
YuanIsin == "RU000A105N25"
OtherIsin == "RU000A0JXXX1"

\* Cell texts as the site renders them: "100", "1 000", "7", and a cell that
\* holds no number.
CellTraded == <<"1", "0", "0">>
CellVolume == <<"1", " ", "0", "0", "0">>
CellDeals == <<"7">>
CellBad == <<"x">>

RawRow(isin, tv, ov) ==
    [isin |-> isin, trading_volume |-> tv, outstanding_volume |-> ov,
     amount_of_deals |-> CellDeals]

\* <<trading_volume, outstanding_volume>> cells a scraped row may carry.
VolumeCells ==
    {<<CellTraded, CellVolume>>, <<None, CellVolume>>, <<CellTraded, None>>,
     <<CellBad, CellVolume>>}

MfoRowSet == {RawRow(i, c[1], c[2]) : i \in {YuanIsin, OtherIsin}, c \in VolumeCells}

CollectorRowSet ==
    {RawRow(OtherIsin, CellTraded, CellVolume), RawRow(OtherIsin, CellBad, CellVolume)}

\* The frames scrape_data can return over a row set: no row twice.
Frames(S) ==
    {f \in UNION {[1..k -> S] : k \in 0..MaxRecs} :
        \A i, j \in DOMAIN f : i # j => f[i] # f[j]}

\* The days a run is made on: each weekday once (day 0 is a Monday).
Days == 14..20
Weekday(d) == d % 7

\* improve_dataframe on one row, once the three cells are converted:
\* share_of_trading_volume is trading_volume / outstanding_volume (line 79).
\* start_week is {} while the row has none (no such column, or NaN).
ImproveRow(r) ==
    LET tv == ConvertNumericValue(r.trading_volume).val
        ov == ConvertNumericValue(r.outstanding_volume).val
    IN [isin |-> r.isin,
        trading_volume |-> tv,
        outstanding_volume |-> ov,
        amount_of_deals |-> ConvertNumericValue(r.amount_of_deals).val,
        share_of_trading_volume |-> Div(tv, ov),
        start_week |-> {}]

\* improve_dataframe(df): a cell float() rejects raises ValueError in the
\* apply of line 69; a frame without rows has no columns, and line 82 raises
\* KeyError on it.
ImproveDataframe(df) ==
    IF \E i \in DOMAIN df :
        \/ ConvertNumericValue(df[i].trading_volume).raised
        \/ ConvertNumericValue(df[i].outstanding_volume).raised
        \/ ConvertNumericValue(df[i].amount_of_deals).raised
    THEN [raised |-> "ValueError", rows |-> <<>>]
    ELSE IF df = <<>>
    THEN [raised |-> "KeyError", rows |-> <<>>]
    ELSE [raised |-> "none", rows |-> [i \in DOMAIN df |-> ImproveRow(df[i])]]

\* The answers of the MOEX history request.
MoexRowSet ==
    {[BOARDID |-> "TQIR", VALUE |-> 30, NUMTRADES |-> 2],
     [BOARDID |-> "TQCB", VALUE |-> 50, NUMTRADES |-> 1]}

MoexTables == UNION {[1..k -> MoexRowSet] : k \in 0..MaxMoexRows}

\* kind: "error" (requests.get raises: network, timeout), "no_rows" (no tr in
\* the answer), "bad_shape" (the DataFrame constructor rejects the cells),
\* "table" (a table; cols_ok: it has the five required columns).
MoexResponses ==
    {[kind |-> k, cols_ok |-> FALSE, rows |-> <<>>] :
        k \in {"error", "no_rows", "bad_shape"}}
    \cup {[kind |-> "table", cols_ok |-> c, rows |-> t] :
            c \in BOOLEAN, t \in MoexTables}

\* fetch_moex_data: the TQIR rows, or an empty frame.
FetchMoexData(resp) ==
    IF resp.kind = "table" /\ resp.cols_ok
    THEN SelectSeq(resp.rows, LAMBDA r : r.BOARDID = "TQIR")
    ELSE <<>>

\* The answers of the rate feed: "error" (the request or the XML parse
\* raises), "no_currency" (no Valute element for the code), "xml" (its Value).
RateResponses ==
    {[kind |-> k, text |-> <<>>] : k \in {"error", "no_currency"}}
    \cup {[kind |-> "xml", text |-> t] :
            t \in {<<"1", "2", ",", "8", "5">>, <<"1">>, <<"x">>}}

\* get_exchange_rate: float(text.replace(',', '.')), 1.0 on any failure.
GetExchangeRate(resp) ==
    IF resp.kind = "xml" /\ ~Float(ReplaceComma(resp.text)).raised
    THEN Float(ReplaceComma(resp.text)).val
    ELSE One

RECURSIVE SumValue(_)
SumValue(t) == IF t = <<>> THEN 0 ELSE Head(t).VALUE + SumValue(Tail(t))

RECURSIVE SumTrades(_)
SumTrades(t) == IF t = <<>> THEN 0 ELSE Head(t).NUMTRADES + SumTrades(Tail(t))

\* df[df['isin'] == isin].index
IsinIndex(df, isin) == {i \in DOMAIN df : df[i].isin = isin}

\* yuan_bond_idx[0]
FirstIsin(df, isin) == CHOOSE i \in IsinIndex(df, isin) : \A j \in IsinIndex(df, isin) : i <= j

\* An overlay that is applied whatever the fetch returned.
OverlayAppliesAlways(moex) == TRUE

\* if not moex_data.empty (line 172)
OverlayApplies(moex) == moex # <<>>

\* Lines 174-190 on the row idx.
Overlay(df, idx, moex, rate, monday) ==
    LET total_value == Int2Num(SumValue(moex))
        total_trades == Int2Num(SumTrades(moex))
    IN [df EXCEPT ![idx] =
            [@ EXCEPT !.share_of_trading_volume =
                          Div(Div(total_value, rate), df[idx].outstanding_volume),
                      !.trading_volume = total_value,
                      !.amount_of_deals = total_trades,
                      !.start_week = {monday}]]

\* main at line 330: both collections have returned.
EnrInit ==
    /\ epc = "improve_mfo"
    /\ today \in Days
    /\ mfo_data \in Frames(MfoRowSet)
    /\ collector_data \in Frames(CollectorRowSet)
    /\ mfo_proc = <<>>
    /\ collector_proc = <<>>
    /\ fetch_args = {}
    /\ moex_data = <<>>
    /\ rate_args = {}
    /\ exchange_rate = One
    /\ main_all_data = <<>>
    /\ err = "none"
    /\ final_data = {}
    /\ returned = {}

\* mfo_proc = improve_dataframe(mfo_data)
ImproveMfo ==
    /\ epc = "improve_mfo"
    /\ LET r == ImproveDataframe(mfo_data) IN
        IF r.raised = "none"
        THEN mfo_proc' = r.rows /\ epc' = "yuan_lookup" /\ err' = err
        ELSE mfo_proc' = mfo_proc /\ epc' = "raised" /\ err' = r.raised
    /\ UNCHANGED <<today, mfo_data, collector_data, collector_proc, fetch_args,
                   moex_data, rate_args, exchange_rate, main_all_data,
                   final_data, returned>>
    /\ UNCHANGED <<acqVars, convVars>>

\* process_yuan_bond, lines 156-163: no row with the ISIN, return the copy.
YuanLookup ==
    /\ epc = "yuan_lookup"
    /\ epc' = IF IsinIndex(mfo_proc, YuanIsin) = {} THEN "improve_collector" ELSE "fetch"
    /\ UNCHANGED <<today, mfo_data, collector_data, mfo_proc, collector_proc,
                   fetch_args, moex_data, rate_args, exchange_rate,
                   main_all_data, err, final_data, returned>>
    /\ UNCHANGED <<acqVars, convVars>>

\* Lines 166-172: the two dates, the fetch, the test of its result.
FetchMoex ==
    /\ epc = "fetch"
    /\ \E resp \in MoexResponses :
        LET monday == today - 7
            friday == today - 3
        IN /\ fetch_args' = fetch_args \cup {<<monday, friday>>}
           /\ moex_data' = FetchMoexData(resp)
           /\ epc' = IF OverlayApplies(FetchMoexData(resp)) THEN "rate" ELSE "improve_collector"
    /\ UNCHANGED <<today, mfo_data, collector_data, mfo_proc, collector_proc,
                   rate_args, exchange_rate, main_all_data, err, final_data,
                   returned>>
    /\ UNCHANGED <<acqVars, convVars>>

\* Lines 174-192: the sums, the rate for friday, the overlay, the return.
RateAndOverlay ==
    /\ epc = "rate"
    /\ \E resp \in RateResponses :
        LET monday == today - 7
            friday == today - 3
            rate == GetExchangeRate(resp)
        IN /\ rate_args' = rate_args \cup {friday}
           /\ exchange_rate' = rate
           /\ mfo_proc' = Overlay(mfo_proc, FirstIsin(mfo_proc, YuanIsin),
                                  moex_data, rate, monday)
    /\ epc' = "improve_collector"
    /\ UNCHANGED <<today, mfo_data, collector_data, collector_proc, fetch_args,
                   moex_data, main_all_data, err, final_data, returned>>
    /\ UNCHANGED <<acqVars, convVars>>

\* collector_proc = improve_dataframe(collector_data);
\* collector_proc['start_week'] = date.today() - timedelta(days=7)
ImproveCollector ==
    /\ epc = "improve_collector"
    /\ LET r == ImproveDataframe(collector_data) IN
        IF r.raised = "none"
        THEN /\ collector_proc' =
                    [i \in DOMAIN r.rows |-> [r.rows[i] EXCEPT !.start_week = {today - 7}]]
             /\ epc' = "join"
             /\ err' = err
        ELSE collector_proc' = collector_proc /\ epc' = "raised" /\ err' = r.raised
    /\ UNCHANGED <<today, mfo_data, collector_data, mfo_proc, fetch_args,
                   moex_data, rate_args, exchange_rate, main_all_data,
                   final_data, returned>>
    /\ UNCHANGED <<acqVars, convVars>>

\* Lines 339-354: the copies, the identifier columns, and
\* all_data = pd.concat([mfo_db, collector_db], ignore_index=True).
\* A row of a frame without the start_week column gets NaN there.
Join ==
    /\ epc = "join"
    /\ main_all_data' = mfo_proc \o collector_proc
    /\ epc' = "assemble"
    /\ UNCHANGED <<today, mfo_data, collector_data, mfo_proc, collector_proc,
                   fetch_args, moex_data, rate_args, exchange_rate, err,
                   final_data, returned>>
    /\ UNCHANGED <<acqVars, convVars>>

\* Lines 356-360: final_data.reset_index(...); return final_data. main never
\* assigns final_data, so the name is looked up in the module, where line 363
\* binds it only once main has returned: NameError while it is unbound.
Assemble ==
    /\ epc = "assemble"
    /\ IF final_data = {}
       THEN epc' = "raised" /\ err' = "NameError" /\ returned' = returned
       ELSE epc' = "returned" /\ err' = err /\ returned' = final_data
    /\ UNCHANGED <<today, mfo_data, collector_data, mfo_proc, collector_proc,
                   fetch_args, moex_data, rate_args, exchange_rate,
                   main_all_data, final_data>>
    /\ UNCHANGED <<acqVars, convVars>>

EnrNext ==
    \/ ImproveMfo
    \/ YuanLookup
    \/ FetchMoex
    \/ RateAndOverlay
    \/ ImproveCollector
    \/ Join
    \/ Assemble

\* ---------------------------------------------------- claims on enrichment
\* process_yuan_bond has returned.
YuanReturned == epc \in {"improve_collector", "join", "assemble"}

\* process_yuan_bond has returned without data from the secondary source:
\* no row with the ISIN, or a fetch that came back empty.
NoSecondaryData == YuanReturned /\ (fetch_args = {} \/ moex_data = <<>>)

\* The overlay of lines 181-190 was applied.
Overlaid == rate_args # {}

\* The Monday of the week before the week of day d.
PriorMonday(d) == d - Weekday(d) - 7

\* C5: when both collections and their enrichment completed without error,
\* main returns the final dataset: the first category's rows followed by the
\* second's, one row per input row.
C5_MainReturnsFinal ==
    (epc \in {"raised", "returned"} /\ err \notin {"ValueError", "KeyError"}) =>
        /\ epc = "returned"
        /\ returned = {mfo_proc \o collector_proc}
        /\ \A f \in returned : Len(f) = Len(mfo_data) + Len(collector_data)

\* C6: without data from the secondary source process_yuan_bond returns
\* without raising, never calls get_exchange_rate, and leaves every row's
\* trading_volume, amount_of_deals and share_of_trading_volume as
\* improve_dataframe set them.
C6_NoDataKeepsScraped ==
    NoSecondaryData =>
        /\ err = "none"
        /\ rate_args = {}
        /\ Len(mfo_proc) = Len(mfo_data)
        /\ \A i \in DOMAIN mfo_proc :
            /\ mfo_proc[i].trading_volume = ImproveRow(mfo_data[i]).trading_volume
            /\ mfo_proc[i].amount_of_deals = ImproveRow(mfo_data[i]).amount_of_deals
            /\ mfo_proc[i].share_of_trading_volume =
                    ImproveRow(mfo_data[i]).share_of_trading_volume

\* The fetch was made for a row with the ISIN and came back empty.
C6_Witness ==
    /\ epc = "improve_collector"
    /\ fetch_args # {}
    /\ moex_data = <<>>
    /\ IsinIndex(mfo_proc, YuanIsin) # {}
    /\ Len(mfo_proc) = 2

\* C7: in the final dataset every row of the first category other than the
\* overlaid one carries start_week = 7 days before the run date.
C7_OtherRowsDefaultWeek ==
    epc = "assemble" =>
        \A i \in DOMAIN mfo_proc :
            (Overlaid /\ i = FirstIsin(mfo_proc, YuanIsin))
            \/ main_all_data[i].start_week = {today - 7}

\* C8: on any day of the week the fetch window runs from the Monday to the
\* Friday of the week before the run date, the rate is resolved for that
\* Friday, and the overlaid row's start_week is that Monday.
C8_WindowIsPriorWeek ==
    /\ \A w \in fetch_args :
        /\ w[1] = PriorMonday(today)
        /\ w[2] = PriorMonday(today) + 4
        /\ Weekday(w[1]) = 0
        /\ Weekday(w[2]) = 4
    /\ \A d \in rate_args : d = PriorMonday(today) + 4
    /\ (Overlaid /\ YuanReturned) =>
        mfo_proc[FirstIsin(mfo_proc, YuanIsin)].start_week = {PriorMonday(today)}

\* C9: a row whose trading_volume and outstanding_volume cells are both
\* present has share_of_trading_volume = trading_volume / outstanding_volume,
\* after improve_dataframe and after the overlay; a row with an absent volume
\* cell has no ratio.
C9_ShareIsRatio ==
    (epc \in {"yuan_lookup", "fetch", "rate"} \/ YuanReturned) =>
        \A i \in DOMAIN mfo_proc :
            IF mfo_data[i].trading_volume # None /\ mfo_data[i].outstanding_volume # None
            THEN NumEq(mfo_proc[i].share_of_trading_volume,
                       Div(mfo_proc[i].trading_volume, mfo_proc[i].outstanding_volume))
            ELSE IsNaN(mfo_proc[i].share_of_trading_volume)

\* C9 on the rows with both cells present only.
C9_ShareIsRatioPresent ==
    (epc \in {"yuan_lookup", "fetch", "rate"} \/ YuanReturned) =>
        \A i \in DOMAIN mfo_proc :
            (mfo_data[i].trading_volume # None /\ mfo_data[i].outstanding_volume # None)
            => NumEq(mfo_proc[i].share_of_trading_volume,
                     Div(mfo_proc[i].trading_volume, mfo_proc[i].outstanding_volume))

vars == <<acqVars, enrVars, convVars>>

EnrIdle ==
    /\ epc = "idle"
    /\ today = 0
    /\ mfo_data = <<>>
    /\ collector_data = <<>>
    /\ mfo_proc = <<>>
    /\ collector_proc = <<>>
    /\ fetch_args = {}
    /\ moex_data = <<>>
    /\ rate_args = {}
    /\ exchange_rate = One
    /\ main_all_data = <<>>
    /\ err = "none"
    /\ final_data = {}
    /\ returned = {}

\* main up to line 328: the two sessions.
Init == AcqInit /\ EnrIdle /\ ConvIdle
Next == AcqNext
Spec == Init /\ [][Next]_vars

\* main from line 330 on, for every pair of frames the sessions may return.
InitEnrich == EnrInit /\ AcqDone /\ ConvIdle
SpecEnrich == InitEnrich /\ [][EnrNext]_vars

\* convert_numeric_value on every cell text up to MaxLen characters.
InitConv == ConvInit /\ AcqDone /\ EnrIdle
SpecConv == InitConv /\ [][ConvNext]_vars
====
